---- MODULE Spec2Model ----
(***************************************************************************)
(* The Contextual Retrieval Engine of src/pre_processing.py:               *)
(* get_relative_info (the spec's retrieve_context), get_redis_data behind  *)
(* functools.lru_cache, and Timer.  Calls are coroutines of one asyncio    *)
(* event loop; the key-value store and the classifier are the environment. *)
(*                                                                         *)
(* Time is counted in ticks of 0.01 ms, the resolution Timer rounds to, so *)
(* a Timer's duration_ms is a whole number of ticks.                       *)
(*                                                                         *)
(* Spec is that event loop.  SpecLive adds the fairness of the loop and of *)
(* the store to it; SpecThreads gives every call a thread of its own, the  *)
(* only way two calls can be inside get_redis_data at once.                *)
(***************************************************************************)
EXTENDS Integers, Sequences, FiniteSets, TLC

(* ---------------------------- bounds ----------------------------------- *)
\* ticks the clock may advance by itself (sleeps add to it on top)
MaxTime == 1
\* keys the store holds under each key pattern
NumKeys == 2
\* empty scan batches with a non-terminal cursor the store may return per scan
MaxEmpty == 1
\* capacity of the memoized lookup; 128 in the source, scaled so that the
\* modelled key space can fill it
maxsize == 2
\* calls made one after the other in a run
MaxSequential == 3

(* ------------------------ python values -------------------------------- *)
\* None, among the string-valued arguments (no modelled text is "None")
PyNone == "None"
\* bool(x) of an argument: None and the empty string are falsy
Truthy(x) == x # PyNone /\ x # ""
\* (the personality left out of the test)
AllTruthy_two(q, rr, p) == Truthy(q) /\ Truthy(rr)
\* all([question, r, personality])
AllTruthy(q, rr, p) == Truthy(q) /\ Truthy(rr) /\ Truthy(p)
\* a bytes object with the UTF-8 encoding of text s
Bytes(s) == <<"bytes", s>>
\* b.decode('utf-8')
decode(b) == b[2]
\* the None that pipe.execute() yields for a key that no longer exists
NoValue == <<>>

(* ------------------------ exceptions ----------------------------------- *)
\* the class hierarchy the except clauses test against
IsInstance(e, cls) ==
    \/ cls = "Exception"
    \/ cls = e
    \/ cls = "RedisError" /\ e \in {"ConnectionError", "TimeoutError"}
\* what a failing store request raises
StoreErrors == {"ConnectionError"}
\* what a failing classifier may raise
ClassifierErrors == {"ValueError", "ConnectionError"}
\* except redis.RedisError, inside get_redis_data's loop
ScanHandlerCatches(e) == IsInstance(e, "RedisError")
\* (a handler that names one error class only)
ClassifyHandlerCatches_narrow(e) == IsInstance(e, "ValueError")
\* except Exception, around categorize_question
ClassifyHandlerCatches(e) == IsInstance(e, "Exception")
\* except redis.RedisError, around the call of get_redis_data
RetryHandlerCatches(e) == IsInstance(e, "RedisError")

(* ------------------------ the environment ------------------------------ *)
Calls == {"c1", "c2"}
NoCall == "none"
\* what stands for the running coroutine when every call has a thread, and
\* an event loop, of its own
Threads == "threads"
Personalities == {"p", "q"}
\* the categories the classifier may answer; "no" means no context is needed
ContextCategories == {"a"}
Categories == ContextCategories \cup {"no"}
Redis == "redis"
\* the arguments a call may be made with: well-formed ones (the default
\* max_retries of 3 and none at all, two batch sizes, a whitespace-only
\* question) and ones with a missing argument
Args(q, rr, p, mr, bs) ==
    [question |-> q, r |-> rr, personality |-> p, max_retries |-> mr, batch_size |-> bs]
ValidInputs ==
    { Args("hi", Redis, "p", 3, 2), Args("hi", Redis, "q", 3, 2), Args("hi", Redis, "p", 3, 1),
      Args("hi", Redis, "p", 0, 2), Args(" ", Redis, "p", 3, 2) }
InvalidInputs ==
    { Args("", Redis, "p", 3, 2), Args(PyNone, Redis, "p", 3, 2),
      Args("hi", PyNone, "p", 3, 2), Args("hi", Redis, "", 3, 2) }
\* how many attempts of a call the store fails before it answers
FaultPlans == {0, 2, 3}
Inputs == ValidInputs \cup InvalidInputs

\* the store's keyspace: ids 1..NumKeys under every personality and category
IdText == [i \in 1..9 |-> CASE i = 1 -> "1" [] i = 2 -> "2" [] i = 3 -> "3"
                            [] i = 4 -> "4" [] i = 5 -> "5" [] i = 6 -> "6"
                            [] i = 7 -> "7" [] i = 8 -> "8" [] OTHER -> "9"]
KeyText(p, cat, i) == p \o ":" \o cat \o ":" \o IdText[i]
ValueText(i) == "v" \o IdText[i]
StoreEntries == [personality : Personalities, category : ContextCategories, id : 1..NumKeys]
EntryKey(e) == Bytes(KeyText(e.personality, e.category, e.id))
EntryValue(e) == Bytes(ValueText(e.id))
\* glob match of a key against "<personality>:<category>:*"
Matches(e, pat) == pat = e.personality \o ":" \o e.category \o ":*"
\* the matching keys in the store's iteration order
MatchingKeys(pat) ==
    LET ids == {e.id : e \in {x \in StoreEntries : Matches(x, pat)}}
        E(i) == CHOOSE e \in StoreEntries : Matches(e, pat) /\ e.id = i
    IN  [i \in 1..Cardinality(ids) |-> EntryKey(E(i))]
\* the value stored under a key
StoredValue(k) == EntryValue(CHOOSE e \in StoreEntries : EntryKey(e) = k)

(* ------------------------------ state ---------------------------------- *)
VARIABLES
    now,      \* time.perf_counter(), in ticks
    running,  \* the coroutine the event loop is running, or NoCall
    cache,    \* the lru_cache of get_redis_data, least recently used first
    call,     \* per call: arguments, locals, position and result of get_relative_info
    hist,     \* per call: the store's script for it, and a record of what it did
    budget    \* per call: how often it may still be invoked in this run
vars == <<now, running, cache, call, hist, budget>>

\* the str "0" the scan starts from: not equal to the int 0 that ends the loop,
\* and read by the store as cursor zero
StartCursor == -1
\* time.sleep(0.1 * retry_count): 0.1 s in ticks
backoff_base == 10000

NewTimer == [start |-> 0, duration_ms |-> 0]
\* Timer.__enter__
TimerEnter(t, clock) == [t EXCEPT !.start = clock]
\* Timer.__exit__: the rounding to 0.01 ms is exact on whole ticks
TimerExit(t, clock) == [t EXCEPT !.duration_ms = clock - t.start]

IdleCall ==
    [pc |-> "idle", question |-> "", r |-> PyNone, personality |-> "",
     max_retries |-> 3, batch_size |-> 1,
     category |-> "", cit_timer |-> NewTimer, drt_timer |-> NewTimer,
     pattern |-> "", retry_count |-> 0, results |-> <<>>,
     cursor |-> StartCursor, keys |-> <<>>, gr_results |-> <<>>,
     outcome |-> "none", ret |-> <<>>, logged |-> {}]
NewCall(in) ==
    [IdleCall EXCEPT !.pc = "pending", !.question = in.question, !.r = in.r,
                     !.personality = in.personality, !.max_retries = in.max_retries,
                     !.batch_size = in.batch_size]
\* planned: attempts the store fails; attempts: how each attempt ended;
\* hit: the lookup was served from the cache; lookups: cache lookups made;
\* reqs: store requests issued; waited: ticks slept between attempts;
\* scanned, fetched, empties: keys, (key, value) pairs and empty batches the
\* store returned in the current attempt; sent, got: the cursors of its scan
\* requests and of the replies to them
NewHist ==
    [planned |-> 0, attempts |-> <<>>, hit |-> FALSE, lookups |-> 0,
     reqs |-> 0, waited |-> 0, empties |-> 0,
     scanned |-> <<>>, fetched |-> <<>>, classified_at |-> 0,
     sent |-> <<>>, got |-> <<>>]
Failed(h) == Len(SelectSeq(h.attempts, LAMBDA a : a = "fail"))
FaultsLeft(h) == h.planned - Failed(h)

\* either one call after the other, or two calls in flight together
Init ==
    /\ now = 0
    /\ running = NoCall
    /\ cache = <<>>
    /\ call = [c \in Calls |-> IdleCall]
    /\ hist = [c \in Calls |-> NewHist]
    /\ budget \in { [c \in Calls |-> IF c = "c1" THEN MaxSequential ELSE 0],
                    [c \in Calls |-> 1] }

(* ------------------------- memoized lookup ----------------------------- *)
\* the key lru_cache makes of the positional arguments
CacheKey(m) == <<m.r, m.pattern, m.batch_size>>
CachedKeys(ch) == {ch[i].key : i \in 1..Len(ch)}
CacheIndex(ch, k) == CHOOSE i \in 1..Len(ch) : ch[i].key = k
\* (a lookup that never finds its key)
CacheHit_never(ch, k) == FALSE
\* whether a lookup of k is a hit
CacheHit(ch, k) == k \in CachedKeys(ch)
\* the number of the next use of the cache: every hit and every insertion is
\* one use, and an entry records the use that stored it (born) and its latest
\* one (used)
RECURSIVE LatestUse(_)
LatestUse(ch) ==
    IF ch = <<>> THEN 0
    ELSE LET rest == LatestUse(Tail(ch))
         IN  IF ch[1].used > rest THEN ch[1].used ELSE rest
NextUse(ch) == LatestUse(ch) + 1
\* (a hit that is recorded but leaves the entry at its place in the order)
CacheTouch_unmoved(ch, k) ==
    [ch EXCEPT ![CacheIndex(ch, k)].used = NextUse(ch)]
\* a hit: the entry becomes the most recently used
CacheTouch(ch, k) ==
    LET i == CacheIndex(ch, k)
    IN  SubSeq(ch, 1, i - 1) \o SubSeq(ch, i + 1, Len(ch))
            \o <<[ch[i] EXCEPT !.used = NextUse(ch)]>>
\* (a key stored meanwhile is overwritten by the later result)
CachePut_overwrite(ch, k, v, whole) ==
    LET e == [key |-> k, value |-> v, complete |-> whole,
              born |-> NextUse(ch), used |-> NextUse(ch)]
    IN  IF k \in CachedKeys(ch)
        THEN [ch EXCEPT ![CacheIndex(ch, k)] = [e EXCEPT !.born = ch[CacheIndex(ch, k)].born]]
        ELSE IF Len(ch) >= maxsize THEN Tail(ch) \o <<e>>
        ELSE ch \o <<e>>
\* after the wrapped function returned: a key stored meanwhile is left as it
\* is, a full cache drops its least recently used entry
CachePut(ch, k, v, whole) ==
    LET e == [key |-> k, value |-> v, complete |-> whole,
              born |-> NextUse(ch), used |-> NextUse(ch)]
    IN  IF k \in CachedKeys(ch) THEN ch
        ELSE IF Len(ch) >= maxsize THEN Tail(ch) \o <<e>>
        ELSE ch \o <<e>>

(* ------------------------- the store ----------------------------------- *)
Min(a, b) == IF a < b THEN a ELSE b
\* the position a cursor stands for, and the cursor for a position
CursorPos(cur) == IF cur = StartCursor THEN 0 ELSE cur - 1
PosCursor(pos) == pos + 1
\* r.scan(cursor, match, count): up to count further matching keys and the
\* cursor to go on with, 0 once the keyspace is exhausted.  An attempt the
\* store is to fail is not allowed to complete.
ScanReplies(m, h) ==
    LET all == MatchingKeys(m.pattern)
        pos == CursorPos(m.cursor)
    IN  { rp \in [keys : {SubSeq(all, pos + 1, pos + n) :
                              n \in 0..Min(m.batch_size, Len(all) - pos)},
                  cursor : {0} \cup {PosCursor(pos + n) : n \in 0..Len(all) - pos}] :
            /\ rp.cursor = 0 => pos + Len(rp.keys) = Len(all)
            /\ rp.cursor # 0 => rp.cursor = PosCursor(pos + Len(rp.keys))
            /\ (rp.keys = <<>> /\ rp.cursor # 0) => h.empties < MaxEmpty
            /\ FaultsLeft(h) > 0 => ~(rp.keys = <<>> /\ rp.cursor = 0) }
\* pipe.execute(): per key its value, or None for a key gone since the scan
FetchReplies(m, h) ==
    IF FaultsLeft(h) > 0 /\ m.cursor = 0 THEN {}
    ELSE { [i \in 1..Len(m.keys) |-> IF i \in S THEN StoredValue(m.keys[i]) ELSE NoValue] :
             S \in SUBSET (1..Len(m.keys)) }
\* whether the request fails with a communication error
MayFail(h) == FaultsLeft(h) > 0

(* ------------------------- returning ----------------------------------- *)
\* line 79
InvalidResult == <<"", 0, 0>>
\* line 87
ClassifyFailedResult == <<"", 0, 0>>
\* (the classification time left out, as on the failure path)
NoContextResult_zero(t) == <<"", 0, 0>>
\* line 90
NoContextResult(t) == <<"", t.duration_ms, 0>>
\* line 106
ExhaustedResult(m) == <<"", m.cit_timer.duration_ms, 0>>
\* get_relative_info returns triple to the handler awaiting it
Return(c, m, h, triple) ==
    /\ call' = [call EXCEPT ![c] = [m EXCEPT !.pc = "done", !.outcome = "returned",
                                               !.ret = triple]]
    /\ hist' = [hist EXCEPT ![c] = h]
\* an exception no handler caught leaves get_relative_info
Propagate(c, m, h, e) ==
    /\ call' = [call EXCEPT ![c] = [m EXCEPT !.pc = "done", !.outcome = "raised",
                                               !.ret = <<e>>]]
    /\ hist' = [hist EXCEPT ![c] = h]

(* ------------------------- get_redis_data ------------------------------ *)
\* line 28: zip(keys, values)
Zip(ks, vs) == [i \in 1..Min(Len(ks), Len(vs)) |-> <<ks[i], vs[i]>>]
\* (the values filtered before they are paired with the keys)
BatchPairs_shifted(ks, vs) ==
    LET present == Zip(ks, SelectSeq(vs, LAMBDA v : v # NoValue))
    IN  [i \in 1..Len(present) |-> <<decode(present[i][1]), decode(present[i][2])>>]
\* lines 26-30: the pairs of a batch whose value is not None, decoded
BatchPairs(ks, vs) ==
    LET present == SelectSeq(Zip(ks, vs), LAMBDA kv : kv[2] # NoValue)
    IN  [i \in 1..Len(present) |-> <<decode(present[i][1]), decode(present[i][2])>>]
\* (a batch put in front of the earlier ones)
Extend_front(rs, pairs) == pairs \o rs
\* line 26: results.extend(...)
Extend(rs, pairs) == rs \o pairs

\* line 36 and lines 100-101: get_redis_data returns its results and its
\* locals are gone, lru_cache stores the list, the caller takes it and leaves
\* the retry loop
Finish(c, m, h, whole) ==
    /\ cache' = CachePut(cache, CacheKey(m), m.gr_results, whole)
    /\ call' = [call EXCEPT ![c] =
                  [m EXCEPT !.results = m.gr_results, !.pc = "formatting",
                            !.cursor = StartCursor, !.keys = <<>>, !.gr_results = <<>>]]
    /\ hist' = [hist EXCEPT ![c] =
                  [h EXCEPT !.attempts = Append(@, IF whole THEN "ok" ELSE "fail")]]
    /\ UNCHANGED now

\* lines 102-107: an exception left get_redis_data; nothing is cached
AttemptRaised(c, m, h, e) ==
    LET n  == m.retry_count + 1
        h2 == [h EXCEPT !.attempts = Append(@, "fail")]
    IN
    /\ cache' = cache
    /\ IF ~RetryHandlerCatches(e)
       THEN Propagate(c, [m EXCEPT !.drt_timer = TimerExit(@, now)], h2, e) /\ UNCHANGED now
       ELSE IF n = m.max_retries
       THEN /\ Return(c, [m EXCEPT !.retry_count = n,
                                   !.drt_timer = TimerExit(@, now),
                                   !.logged = @ \cup {"error: max retries reached"}],
                      h2, ExhaustedResult(m))
            /\ UNCHANGED now
       ELSE /\ now' = now + backoff_base * n
            /\ call' = [call EXCEPT ![c] = [m EXCEPT !.retry_count = n, !.pc = "retrieving"]]
            /\ hist' = [hist EXCEPT ![c] = [h2 EXCEPT !.waited = @ + backoff_base * n]]

\* lines 32-34: what a store error inside the loop leads to
\* (TRUE: it is logged and the loop is left; FALSE: it reaches the caller)
ScanErrorHandled(e) == ScanHandlerCatches(e)
StoreError(c, m, h, e) ==
    LET h2 == [h EXCEPT !.reqs = @ + 1,
                        !.sent = IF m.pc = "scan" THEN Append(@, m.cursor) ELSE @]
    IN
    IF ScanErrorHandled(e)
    THEN Finish(c, [m EXCEPT !.logged = @ \cup {"error: redis error during scan/get"}],
                h2, FALSE)
    ELSE AttemptRaised(c, m, h2, e)

\* line 15: the loop test after an iteration
LoopTest(c, m, h) ==
    IF m.cursor # 0
    THEN /\ call' = [call EXCEPT ![c] = [m EXCEPT !.pc = "scan"]]
         /\ hist' = [hist EXCEPT ![c] = h]
         /\ UNCHANGED <<now, cache>>
    ELSE Finish(c, m, h, TRUE)

\* (an empty batch taken as the end of the scan)
EmptyBatch_break(c, m, h) == Finish(c, m, h, TRUE)
\* lines 18-19: "if not keys: continue" goes back to the loop test
EmptyBatch(c, m, h) == LoopTest(c, m, h)

\* (the scan going on from the cursor it sent)
NextCursor_stale(sent, returned) == sent
\* line 17: cursor, keys = r.scan(cursor=cursor, ...)
NextCursor(sent, returned) == returned

\* (every call scanning under the personality "p")
Pattern_fixed(p, cat) == "p" \o ":" \o cat \o ":*"
\* line 94: f"{personality}:{category}:*"
Pattern(p, cat) == p \o ":" \o cat \o ":*"

\* (one more round than max_retries allows)
LoopRuns_inclusive(m) == m.retry_count <= m.max_retries
\* line 98: while retry_count < max_retries
LoopRuns(m) == m.retry_count < m.max_retries

(* ------------------------- get_relative_info --------------------------- *)
\* whether the call c may take a step: it is the coroutine its event loop is
\* running, or it has a thread to itself
Runs(c) == running \in {c, Threads}
\* the arguments calls are made with: on threads, those of calls that can
\* meet at one cache key or at two
Offered ==
    IF running = Threads
    THEN {Args("hi", Redis, "p", 3, 2), Args("hi", Redis, "q", 3, 2)}
    ELSE Inputs
\* the store's scripts: on threads it answers every request, so that two
\* results for one key differ only by the values that went missing
Planned == IF running = Threads THEN {0} ELSE FaultPlans

\* a request handler creates the coroutine
Invoke(c) ==
    /\ call[c].pc = "idle"
    /\ budget[c] > 0
    /\ budget' = [budget EXCEPT ![c] = @ - 1]
    /\ \E in \in Offered : call' = [call EXCEPT ![c] = NewCall(in)]
    /\ hist' = [hist EXCEPT ![c] = NewHist]
    /\ UNCHANGED <<now, running, cache>>

\* lines 76-82: the loop starts the coroutine: input validation, then the
\* cit timer starts
Validate(c) ==
    LET m == call[c] IN
    /\ m.pc = "pending"
    /\ running \in {NoCall, Threads}
    /\ running' = (IF running = Threads THEN Threads ELSE c)
    /\ IF ~AllTruthy(m.question, m.r, m.personality)
       THEN Return(c, [m EXCEPT !.logged = @ \cup {"warning: missing parameters"}],
                   hist[c], InvalidResult)
       ELSE /\ call' = [call EXCEPT ![c] =
                          [m EXCEPT !.pc = "classifying",
                                    !.cit_timer = TimerEnter(NewTimer, now)]]
            /\ UNCHANGED hist
    /\ UNCHANGED <<now, cache, budget>>

\* lines 83-96: categorize_question answers or raises; "no" returns, any other
\* category starts the drt timer and builds the pattern
Classify(c) ==
    LET m == call[c]
        t == TimerExit(m.cit_timer, now)
        h == [hist[c] EXCEPT !.classified_at = now]
    IN
    /\ m.pc = "classifying"
    /\ Runs(c)
    /\ \E res \in Categories \cup ClassifierErrors :
         IF res \in ClassifierErrors
         THEN IF ClassifyHandlerCatches(res)
              THEN Return(c, [m EXCEPT !.cit_timer = t,
                                       !.logged = @ \cup {"error: category identification failed"}],
                          h, ClassifyFailedResult)
              ELSE Propagate(c, [m EXCEPT !.cit_timer = t], h, res)
         ELSE IF res = "no"
              THEN Return(c, [m EXCEPT !.cit_timer = t, !.category = res], h,
                          NoContextResult(t))
              ELSE \E f \in Planned :
                     /\ call' = [call EXCEPT ![c] =
                                   [m EXCEPT !.cit_timer = t, !.category = res,
                                             !.drt_timer = TimerEnter(NewTimer, now),
                                             !.pattern = Pattern(m.personality, res),
                                             !.retry_count = 0, !.results = <<>>,
                                             !.pc = "retrieving"]]
                     /\ hist' = [hist EXCEPT ![c] = [h EXCEPT !.planned = f]]
    /\ UNCHANGED <<now, running, cache, budget>>

\* lines 98-100 and 9-13: the retry loop's test, and the call of get_redis_data
\* through lru_cache
Retrieve(c) ==
    LET m == call[c]
        h == hist[c]
        k == CacheKey(m)
    IN
    /\ m.pc = "retrieving"
    /\ Runs(c)
    /\ IF ~LoopRuns(m)
       THEN /\ call' = [call EXCEPT ![c] = [m EXCEPT !.pc = "formatting"]]
            /\ UNCHANGED <<cache, hist>>
       ELSE IF CacheHit(cache, k)
       THEN /\ cache' = CacheTouch(cache, k)
            /\ call' = [call EXCEPT ![c] =
                          [m EXCEPT !.results = cache[CacheIndex(cache, k)].value,
                                    !.pc = "formatting"]]
            /\ hist' = [hist EXCEPT ![c] = [h EXCEPT !.hit = TRUE, !.lookups = @ + 1]]
       ELSE /\ call' = [call EXCEPT ![c] =
                          [m EXCEPT !.gr_results = <<>>, !.cursor = StartCursor,
                                    !.keys = <<>>, !.pc = "scan"]]
            /\ hist' = [hist EXCEPT ![c] =
                          [h EXCEPT !.lookups = @ + 1, !.empties = 0,
                                    !.scanned = <<>>, !.fetched = <<>>,
                                    !.sent = <<>>, !.got = <<>>]]
            /\ UNCHANGED cache
    /\ UNCHANGED <<now, running, budget>>

\* lines 16-19: one scan request
Scan(c) ==
    LET m == call[c]
        h == hist[c]
    IN
    /\ m.pc = "scan"
    /\ Runs(c)
    /\ \/ \E e \in StoreErrors : MayFail(h) /\ StoreError(c, m, h, e)
       \/ \E rp \in ScanReplies(m, h) :
            LET m2 == [m EXCEPT !.cursor = NextCursor(m.cursor, rp.cursor), !.keys = rp.keys]
                h2 == [h EXCEPT !.reqs = @ + 1, !.scanned = @ \o rp.keys,
                                !.sent = Append(@, m.cursor), !.got = Append(@, rp.cursor),
                                !.empties = IF rp.keys = <<>> /\ rp.cursor # 0
                                            THEN @ + 1 ELSE @]
            IN  IF rp.keys = <<>>
                THEN EmptyBatch(c, m2, h2)
                ELSE /\ call' = [call EXCEPT ![c] = [m2 EXCEPT !.pc = "fetch"]]
                     /\ hist' = [hist EXCEPT ![c] = h2]
                     /\ UNCHANGED <<now, cache>>
    /\ UNCHANGED <<running, budget>>

\* lines 21-30: the batched read of the scanned keys
Fetch(c) ==
    LET m == call[c]
        h == hist[c]
    IN
    /\ m.pc = "fetch"
    /\ Runs(c)
    /\ \/ \E e \in StoreErrors : MayFail(h) /\ StoreError(c, m, h, e)
       \/ \E values \in FetchReplies(m, h) :
            LoopTest(c, [m EXCEPT !.gr_results = Extend(@, BatchPairs(m.keys, values))],
                        [h EXCEPT !.reqs = @ + 1, !.fetched = @ \o Zip(m.keys, values)])
    /\ UNCHANGED <<running, budget>>

\* line 110: "\n".join(f"{key} - {value}" for key, value in results)
RECURSIVE Join(_)
Join(rs) ==
    IF rs = <<>> THEN ""
    ELSE IF Len(rs) = 1 THEN rs[1][1] \o " - " \o rs[1][2]
    ELSE rs[1][1] \o " - " \o rs[1][2] \o "\n" \o Join(Tail(rs))

\* lines 110-112: format, stop the drt timer, return
Format(c) ==
    LET m == call[c]
        t == TimerExit(m.drt_timer, now)
    IN
    /\ m.pc = "formatting"
    /\ Runs(c)
    /\ Return(c, [m EXCEPT !.drt_timer = t], hist[c],
              <<Join(m.results), m.cit_timer.duration_ms, t.duration_ms>>)
    /\ UNCHANGED <<now, running, cache, budget>>

\* the awaiting handler goes on with the result; the coroutine is gone and
\* the loop is free for the next one
Collect(c) ==
    /\ call[c].pc = "done"
    /\ Runs(c)
    /\ running' = (IF running = Threads THEN Threads ELSE NoCall)
    /\ call' = [call EXCEPT ![c] = IdleCall]
    /\ hist' = [hist EXCEPT ![c] = NewHist]
    /\ UNCHANGED <<now, cache, budget>>

\* time passes
Tick ==
    /\ now < MaxTime
    /\ now' = now + 1
    /\ UNCHANGED <<running, cache, call, hist, budget>>

Next ==
    \/ Tick
    \/ \E c \in Calls :
         \/ Invoke(c) \/ Validate(c) \/ Classify(c) \/ Retrieve(c)
         \/ Scan(c) \/ Fetch(c) \/ Format(c) \/ Collect(c)

Spec == Init /\ [][Next]_vars

\* two calls made once each from two threads, lru_cache shared between them
InitThreads ==
    /\ now = 0
    /\ running = Threads
    /\ cache = <<>>
    /\ call = [c \in Calls |-> IdleCall]
    /\ hist = [c \in Calls |-> NewHist]
    /\ budget = [c \in Calls |-> 1]
SpecThreads == InitThreads /\ [][Next]_vars

(* ------------------------------ claims --------------------------------- *)
Done(c) == call[c].pc = "done"
\* the call looked its key up, missed, and ran the scan+fetch pipeline
RanPipeline(c) == hist[c].lookups > 0 /\ ~hist[c].hit
\* the text of the i-th entry under a personality and category, as one line
EntryLine(p, cat, i) == KeyText(p, cat, i) \o " - " \o ValueText(i)
\* the first n entries as lines, built from the last one backwards
RECURSIVE EntryLines(_, _, _)
EntryLines(p, cat, n) ==
    IF n = 0 THEN ""
    ELSE IF n = 1 THEN EntryLine(p, cat, 1)
    ELSE EntryLines(p, cat, n - 1) \o "\n" \o EntryLine(p, cat, n)
\* the (key, value) texts of the reads whose value was there, in read order
RECURSIVE PresentPairs(_)
PresentPairs(fs) ==
    IF fs = <<>> THEN <<>>
    ELSE LET rest == PresentPairs(SubSeq(fs, 1, Len(fs) - 1))
             last == fs[Len(fs)]
         IN  IF last[2] = NoValue THEN rest
             ELSE Append(rest, <<last[1][2], last[2][2]>>)

\* C1: with max_retries = 3 and a store that fails the first two attempts of a
\* call and answers the third, the call ends with a successful attempt, returns
\* the context formatted from that attempt's data, and has waited at least
\* backoff_base*1 + backoff_base*2 between the attempts.
C1_RetryThenSucceed ==
    \A c \in Calls :
        (Done(c) /\ RanPipeline(c) /\ call[c].max_retries = 3 /\ hist[c].planned = 2)
        => /\ call[c].outcome = "returned"
           /\ hist[c].attempts = <<"fail", "fail", "ok">>
           /\ call[c].ret[1] = Join(PresentPairs(hist[c].fetched))
           /\ hist[c].waited >= backoff_base * 1 + backoff_base * 2

\* C2: whatever the arguments, the classifier and the store do, a finished
\* call has returned a (context, cit, drt) triple; no exception leaves it.
C2_NeverRaises ==
    \A c \in Calls :
        /\ call[c].outcome # "raised"
        /\ Done(c) => (call[c].outcome = "returned" /\ Len(call[c].ret) = 3)
\* a call returned although its classifier raised a store-communication
\* error, and another although the store failed after a batch was read
C2_Witness ==
    \E c \in Calls :
        /\ Done(c) /\ call[c].outcome = "returned"
        /\ \/ "error: category identification failed" \in call[c].logged
           \/ ("fail" \in {hist[c].attempts[i] : i \in 1..Len(hist[c].attempts)}
               /\ hist[c].fetched # <<>>)

\* C3: when the store fails every one of the max_retries attempts of a call,
\* wherever in the scan or the batched read, the call returns an empty context
\* and an error is logged.
C3_ExhaustedReturnsEmpty ==
    \A c \in Calls :
        (Done(c) /\ RanPipeline(c) /\ call[c].max_retries > 0
                 /\ hist[c].planned >= call[c].max_retries)
        => /\ call[c].outcome = "returned"
           /\ call[c].ret[1] = ""
           /\ \E l \in call[c].logged : l \in {"error: max retries reached",
                                               "error: redis error during scan/get"}

\* C4: a call whose key is in the memoized lookup when it calls get_redis_data
\* is given the cached list and goes on to format it, and no call issues a
\* scan or a batched read while its key is cached.
C4_HitIssuesNoTraffic ==
    [][\A c \in Calls :
         LET k == CacheKey(call[c]) IN
         /\ (hist'[c].reqs > hist[c].reqs) => k \notin CachedKeys(cache)
         /\ (/\ call[c].pc = "retrieving"
             /\ call[c].retry_count < call[c].max_retries
             /\ k \in CachedKeys(cache)
             /\ call'[c] # call[c])
            => /\ call'[c].pc = "formatting"
               /\ call'[c].results = cache[CacheIndex(cache, k)].value
               /\ hist'[c].reqs = hist[c].reqs]_vars
\* a call was served a non-empty list from the cache without a store request
C4_Witness ==
    \E c \in Calls :
        Done(c) /\ hist[c].hit /\ hist[c].reqs = 0 /\ call[c].ret[1] # ""

\* C5: every entry of the memoized lookup is the result of a scan that reached
\* the terminal cursor without a store error.
C5_CacheHoldsWholeScans ==
    \A i \in 1..Len(cache) : cache[i].complete

\* C6: a call with an empty or whitespace-only question returns ("", 0, 0)
\* and neither looks anything up nor sends the store a request.
C6_BlankQuestionShortCircuits ==
    \A c \in Calls :
        (Done(c) /\ call[c].question \in {"", " "})
        => /\ call[c].ret = <<"", 0, 0>>
           /\ hist[c].lookups = 0
           /\ hist[c].reqs = 0

\* C7: a call whose question is classified "no" returns ("", cit, 0), cit
\* being the time from the cit timer's start to the end of classification and
\* not negative; it built no pattern, counted no retry, and touched neither
\* the store nor the memoized lookup.
C7_NoContext ==
    \A c \in Calls :
        (Done(c) /\ call[c].category = "no")
        => /\ call[c].outcome = "returned"
           /\ call[c].ret = <<"", hist[c].classified_at - call[c].cit_timer.start, 0>>
           /\ call[c].ret[2] >= 0
           /\ call[c].pattern = "" /\ call[c].retry_count = 0
           /\ hist[c].lookups = 0 /\ hist[c].reqs = 0
\* a "no" call that measured a classification time above zero
C7_Witness ==
    \E c \in Calls : Done(c) /\ call[c].category = "no" /\ call[c].ret[2] > 0

\* C8: when the scan of a call runs to the end and every scanned key has its
\* value at the batched read, the context is the lines "key - value" of the
\* store's entries under the call's pattern, in the store's scan order, each
\* key with its own value, joined by newlines.
C8_ContextInScanOrder ==
    \A c \in Calls :
        (/\ Done(c) /\ RanPipeline(c) /\ hist[c].attempts = <<"ok">>
         /\ \A i \in 1..Len(hist[c].fetched) : hist[c].fetched[i][2] # NoValue)
        => /\ Len(hist[c].scanned) = NumKeys
           /\ call[c].ret[1] = EntryLines(call[c].personality, call[c].category, NumKeys)
\* the keys came in two batches, each read on its own
C8_Witness ==
    \E c \in Calls :
        /\ Done(c) /\ RanPipeline(c) /\ hist[c].attempts = <<"ok">>
        /\ Len(hist[c].fetched) = NumKeys /\ hist[c].reqs >= 4
        /\ \A i \in 1..Len(hist[c].fetched) : hist[c].fetched[i][2] # NoValue

\* C9: the results of a scan are exactly the (key, value) pairs of the reads
\* whose value was there, in read order; a missing value alone logs nothing
\* and counts no retry.
C9_MissingValueDropped ==
    \A c \in Calls :
        (call[c].pc \in {"formatting", "done"} /\ RanPipeline(c))
        => /\ call[c].results = PresentPairs(hist[c].fetched)
           /\ hist[c].attempts = <<"ok">>
              => (call[c].logged = {} /\ call[c].retry_count = 0)
           /\ (Done(c) /\ call[c].outcome = "returned")
              => call[c].ret[1] = Join(PresentPairs(hist[c].fetched))
\* one batch held a key whose value was gone before a key whose value was there
C9_Witness ==
    \E c \in Calls :
        /\ Done(c) /\ RanPipeline(c) /\ hist[c].attempts = <<"ok">>
        /\ hist[c].reqs = 2
        /\ Len(hist[c].fetched) = 2
        /\ hist[c].fetched[1][2] = NoValue /\ hist[c].fetched[2][2] # NoValue

\* C10: while a call waits for the store, a pending call with well-formed
\* arguments and another personality (so another pattern) can be started.
C10_NoBlocking ==
    \A c, d \in Calls :
        (/\ c # d
         /\ call[c].pc \in {"scan", "fetch"}
         /\ call[d].pc = "pending"
         /\ AllTruthy(call[d].question, call[d].r, call[d].personality)
         /\ call[c].personality # call[d].personality)
        => ENABLED Validate(d)


\* a missing argument: the empty string or None
Missing(x) == x \in {"", PyNone}

\* C11: a call whose classifier raised returns an empty context, drt = 0 and
\* as cit the time from the cit timer's start to the failure, and has sent the
\* store no request.
C11_ClassifierFailureKeepsCit ==
    \A c \in Calls :
        (Done(c) /\ "error: category identification failed" \in call[c].logged)
        => /\ call[c].ret = <<"", hist[c].classified_at - call[c].cit_timer.start, 0>>
           /\ hist[c].lookups = 0 /\ hist[c].reqs = 0

\* C12: a call with an empty or missing question, store handle or personality
\* goes from pending straight to done with ("", 0, 0): it is never classified,
\* it sends the store nothing, and the step leaves the memoized lookup as it
\* was.
C12_InvalidInputFailsFast ==
    /\ [](\A c \in Calls :
            (Done(c) /\ (Missing(call[c].question) \/ Missing(call[c].r)
                                                   \/ Missing(call[c].personality)))
            => /\ call[c].ret = <<"", 0, 0>> /\ call[c].outcome = "returned"
               /\ call[c].category = "" /\ call[c].pattern = ""
               /\ hist[c].lookups = 0 /\ hist[c].reqs = 0)
    /\ [][\A c \in Calls :
            (/\ call[c].pc = "pending" /\ call'[c] # call[c]
             /\ (Missing(call[c].question) \/ Missing(call[c].r)
                                           \/ Missing(call[c].personality)))
            => /\ call'[c].pc = "done"
               /\ cache' = cache
               /\ hist'[c] = hist[c]]_vars
\* a call with an empty personality and otherwise good arguments has returned
C12_Witness ==
    \E c \in Calls :
        /\ Done(c) /\ call[c].personality = ""
        /\ ~Missing(call[c].question) /\ ~Missing(call[c].r)
        /\ call[c].ret = <<"", 0, 0>>


\* C13: a step in which the store fails a scan or a batched read ends the
\* attempt at once and hands the failure to the retry loop of the caller: the
\* retry counter goes up by one, the caller gets no result list, and nothing is
\* stored in the memoized lookup.
C13_StoreErrorSignalsFailure ==
    [][\A c \in Calls :
        (Failed(hist'[c]) = Failed(hist[c]) + 1)
        => /\ call'[c].pc \notin {"scan", "fetch"}
           /\ call'[c].retry_count = call[c].retry_count + 1
           /\ call'[c].pc # "formatting"
           /\ cache' = cache]_vars

\* the waits the retry loop owes after n failed attempts out of at most mr:
\* backoff_base * k after the k-th, none after the last
BackoffOwed(n, mr) ==
    LET k == IF n < mr THEN n ELSE mr - 1
    IN  IF k <= 0 THEN 0 ELSE backoff_base * ((k * (k + 1)) \div 2)

\* C14: a call attempts the pipeline at most max_retries times, its retry
\* counter equals the number of failed attempts, and it has waited
\* backoff_base * k after the k-th failed attempt for every k < max_retries and
\* not at all after the last one.
C14_RetryBookkeeping ==
    \A c \in Calls :
        /\ Len(hist[c].attempts) <= call[c].max_retries
        /\ call[c].retry_count = Failed(hist[c])
        /\ hist[c].waited = BackoffOwed(Failed(hist[c]), call[c].max_retries)


\* C15: a scan reply with no keys and a cursor that is not the terminal one
\* does not end the scan: the call stays in the scan with the returned cursor,
\* no read is issued for the batch, the retry counter and the attempts are as
\* before and nothing is cached; and a scan that ended without a store error
\* has seen every matching key, the ones after an empty batch included.
C15_EmptyBatchSkipped ==
    /\ [][\A c \in Calls :
            (hist'[c].empties = hist[c].empties + 1)
            => /\ call'[c].pc = "scan"
               /\ call'[c].cursor # 0
               /\ CursorPos(call'[c].cursor) = Len(hist'[c].scanned)
               /\ hist'[c].reqs = hist[c].reqs + 1
               /\ hist'[c].fetched = hist[c].fetched
               /\ call'[c].gr_results = call[c].gr_results
               /\ call'[c].retry_count = call[c].retry_count
               /\ hist'[c].attempts = hist[c].attempts
               /\ cache' = cache]_vars
    /\ [](\A c \in Calls :
            (RanPipeline(c) /\ hist[c].attempts = <<"ok">>)
            => /\ hist[c].scanned = MatchingKeys(call[c].pattern)
               /\ Len(hist[c].fetched) = Len(hist[c].scanned)
               /\ (Done(c) => call[c].ret[1] = Join(PresentPairs(hist[c].fetched))))
\* a call whose scan began with an empty batch has returned all the entries
C15_Witness ==
    \E c \in Calls :
        /\ Done(c) /\ hist[c].empties = 1 /\ hist[c].attempts = <<"ok">>
        /\ Len(hist[c].fetched) = NumKeys
        /\ call[c].results = PresentPairs(hist[c].fetched)
        /\ Len(call[c].results) = NumKeys


\* the keys of the store filed under a personality and a category
OwnKeys(p, cat) == {Bytes(KeyText(p, cat, i)) : i \in 1..NumKeys}

\* C19: a call that is scanning, or has scanned, does so under the pattern
\* "<personality>:<category>:*" made of its own personality and the category
\* its own classification gave, both non-empty; every key the store returned
\* to it and every pair it holds is filed under that personality and category.
C19_ScanUnderOwnPattern ==
    \A c \in Calls :
        (call[c].pc \in {"scan", "fetch"} \/ hist[c].reqs > 0)
        => /\ call[c].personality # "" /\ call[c].personality # PyNone
           /\ call[c].category \in ContextCategories /\ call[c].category # ""
           /\ call[c].pattern = call[c].personality \o ":" \o call[c].category \o ":*"
           /\ \A i \in 1..Len(hist[c].scanned) :
                hist[c].scanned[i] \in OwnKeys(call[c].personality, call[c].category)
           /\ \A i \in 1..Len(call[c].gr_results) :
                Bytes(call[c].gr_results[i][1])
                    \in OwnKeys(call[c].personality, call[c].category)
\* a call made for the personality "q" holds keys the store returned to it,
\* while the other call was made for "p"
C19_Witness ==
    \E c, d \in Calls :
        /\ c # d
        /\ call[c].pc = "fetch" /\ call[c].personality = "q" /\ call[c].keys # <<>>
        /\ call[d].pc = "pending" /\ call[d].personality = "p"

\* C20: a call with good arguments, a context category and max_retries <= 0
\* never enters the retry loop: it returns an empty context with the cit and
\* the drt its timers measured, has made no cache lookup and sent the store no
\* request, although the store holds entries matching its pattern.
C20_NoRetriesNoLookup ==
    \A c \in Calls :
        (Done(c) /\ call[c].category \in ContextCategories /\ call[c].max_retries <= 0)
        => /\ call[c].outcome = "returned"
           /\ call[c].ret = <<"", hist[c].classified_at - call[c].cit_timer.start,
                              call[c].drt_timer.duration_ms>>
           /\ call[c].drt_timer.duration_ms >= 0
           /\ hist[c].lookups = 0 /\ hist[c].reqs = 0 /\ ~hist[c].hit
           /\ hist[c].attempts = <<>>
           /\ Len(MatchingKeys(call[c].pattern)) = NumKeys
\* such a call has returned while the memoized lookup holds its very key
C20_Witness ==
    \E c \in Calls :
        /\ Done(c) /\ call[c].category \in ContextCategories /\ call[c].max_retries = 0
        /\ call[c].ret[1] = ""
        /\ CacheHit(cache, CacheKey(call[c]))


\* the steps of a call that the event loop and the store make, given that the
\* loop runs every ready coroutine and the store answers every request
Progress(c) ==
    \/ Validate(c) \/ Classify(c) \/ Retrieve(c)
    \/ Scan(c) \/ Fetch(c) \/ Format(c) \/ Collect(c)
Fairness == \A c \in Calls : WF_vars(Progress(c))
\* two calls made once each, in any order and overlap
InitLive == Init /\ budget = [c \in Calls |-> 1]
SpecLive == InitLive /\ [][Next]_vars /\ Fairness

\* C16: the first scan request of an attempt carries the start cursor, every
\* later one the cursor the reply before it returned, no request follows a
\* reply with the terminal cursor, and an attempt that ended without a store
\* error ended on the terminal cursor; and every call that was made reaches
\* Done.
C16_ScanWalksCursorsAndEnds ==
    /\ [](\A c \in Calls :
            LET s == hist[c].sent
                g == hist[c].got
            IN  /\ Len(s) > 0 => s[1] = StartCursor
                /\ \A i \in 1..Len(s) : i > 1 => (i - 1 <= Len(g) /\ s[i] = g[i - 1])
                /\ \A i \in 1..Len(g) : (g[i] = 0) => (i = Len(g) /\ Len(s) = i)
                /\ (call[c].pc = "scan" /\ Len(g) > 0) => call[c].cursor = g[Len(g)]
                /\ (RanPipeline(c) /\ hist[c].attempts = <<"ok">>)
                   => (Len(g) > 0 /\ g[Len(g)] = 0))
    /\ \A c \in Calls : (call[c].pc = "pending") ~> Done(c)
\* a scan of three requests that went from the start cursor over two further
\* cursors to the terminal one, and the call is done
C16_Witness ==
    \E c \in Calls :
        /\ Done(c) /\ hist[c].attempts = <<"ok">>
        /\ Len(hist[c].sent) = 3 /\ Len(hist[c].got) = 3
        /\ hist[c].sent[1] = StartCursor /\ hist[c].got[3] = 0
        /\ hist[c].sent[2] # hist[c].sent[3]


\* the entry of the cache ch stored under the key k
EntryOf(ch, k) == ch[CacheIndex(ch, k)]

\* C17: the memoized lookup never holds more than maxsize entries, and no key
\* twice; its entries stand in the order of their latest use, the least
\* recently used first, a hit counting as a use; a step removes an entry only
\* when a new key is stored into a full cache, and then exactly one, the one
\* whose latest use is the oldest, every other entry staying as it was.
C17_BoundedLeastRecentlyUsed ==
    /\ [](/\ Len(cache) <= maxsize
          /\ Cardinality(CachedKeys(cache)) = Len(cache)
          /\ \A i, j \in 1..Len(cache) : i < j => cache[i].used < cache[j].used)
    /\ [][LET old  == CachedKeys(cache)
              new  == CachedKeys(cache')
              gone == old \ new
              came == new \ old
          IN  /\ Cardinality(came) <= 1
              /\ (came # {} /\ Len(cache) < maxsize) => gone = {}
              /\ gone # {}
                 => /\ Cardinality(gone) = 1 /\ Cardinality(came) = 1
                    /\ Len(cache) = maxsize /\ Len(cache') = maxsize
                    /\ \A k \in gone : \A i \in 1..Len(cache) :
                         EntryOf(cache, k).used <= cache[i].used
              /\ \A k \in old \cap new :
                    /\ EntryOf(cache', k).value = EntryOf(cache, k).value
                    /\ EntryOf(cache', k).born = EntryOf(cache, k).born
                    /\ EntryOf(cache', k).used >= EntryOf(cache, k).used
                    /\ (came # {} => EntryOf(cache', k) = EntryOf(cache, k))]_vars
\* a full cache whose first stored entry has been evicted by a later insertion
C17_Witness ==
    /\ Len(cache) = maxsize
    /\ \A i \in 1..Len(cache) : cache[i].born > 1
    /\ cache[Len(cache)].born > maxsize


\* the step in which get_redis_data returns to the call c after a miss
Returns(c) == call[c].pc \in {"scan", "fetch"} /\ call'[c].pc = "formatting"
\* how many entries of the cache ch are stored under the key k
EntriesFor(ch, k) == Cardinality({i \in 1..Len(ch) : ch[i].key = k})
\* every entry of the cache under another key than k is in cache' as it was
OthersKept(k) ==
    \A j \in CachedKeys(cache) \ {k} :
        j \in CachedKeys(cache') /\ EntryOf(cache', j) = EntryOf(cache, j)

\* C18 as stated: whenever get_redis_data returns to a call after a miss,
\* the cache then holds exactly one entry under the call's key and it is the
\* result this call computed (the last writer wins), the capacity holds and
\* the other entries are untouched.
C18_LastWriterWins ==
    [][\A c \in Calls :
        Returns(c)
        => LET k == CacheKey(call[c])
           IN  /\ EntriesFor(cache', k) = 1
               /\ EntryOf(cache', k).value = call'[c].results
               /\ Len(cache') <= maxsize
               /\ OthersKept(k)]_vars

\* C18, amended: whenever get_redis_data returns to a call after a miss, the
\* cache then holds exactly one entry under the call's key, the capacity
\* holds and the other entries are untouched; if another call stored the key
\* meanwhile the cache is left exactly as it was (the first writer's entry is
\* kept), else the entry is this call's result, stored as the most recent
\* use; the call itself goes on with its own result either way.
C18_FirstWriterKept ==
    [][\A c \in Calls :
        Returns(c)
        => LET k == CacheKey(call[c])
           IN  /\ EntriesFor(cache', k) = 1
               /\ Len(cache') <= maxsize
               /\ OthersKept(k)
               /\ \A i, j \in 1..Len(cache') : i < j => cache'[i].used < cache'[j].used
               /\ CacheHit(cache, k) => cache' = cache
               /\ ~CacheHit(cache, k)
                  => /\ EntryOf(cache', k).value = call'[c].results
                     /\ cache'[Len(cache')].key = k
               /\ call'[c].results = PresentPairs(hist'[c].fetched)]_vars
\* two calls missed on one key and computed different results; the cache
\* holds one entry, the result of one of them
C18_Witness ==
    \E c, d \in Calls :
        /\ c # d
        /\ CacheKey(call[c]) = CacheKey(call[d])
        /\ call[c].pc \in {"formatting", "done"} /\ call[d].pc \in {"formatting", "done"}
        /\ RanPipeline(c) /\ RanPipeline(d)
        /\ call[c].results # call[d].results
        /\ Len(cache) = 1 /\ cache[1].value = call[c].results

====
